---- MODULE Spec2Model ----
(***************************************************************************)
(* Copilot ROI Platform - ML Services (copilot-platform/ml-services).      *)
(*                                                                         *)
(* The four predictors (AdoptionPredictor, ROIPredictor, UserSegmenter,    *)
(* ChurnPredictor) and the four POST endpoints that call them.             *)
(*                                                                         *)
(* Numbers.  Python floats are modelled exactly where the code's result    *)
(* is an exact decimal or rational on the inputs explored:                 *)
(*   - percentages and ROI values rounded by round(x, 2) are integers in   *)
(*     hundredths (8000 is 80.0);                                          *)
(*   - unrounded values are rationals <<numerator, denominator>>;          *)
(*   - the churn score is in hundredths (30 is 0.3): the IEEE sums of      *)
(*     0.3, 0.3, 0.2, 0.1 taken in the code's order compare with 0.7 and   *)
(*     0.4 exactly as the decimals do, for all 16 subsets;                 *)
(*   - int(len(df) * 0.15) and int(len(df) * 0.35) are computed on the     *)
(*     IEEE-754 doubles themselves (53-bit significands as bit sequences,  *)
(*     round-to-nearest-even), because truncation exposes the             *)
(*     representation error of the literal.                                *)
(* Time.  datetime.now() is the variable now, in whole days.               *)
(***************************************************************************)
EXTENDS Integers, Sequences, FiniteSets, TLC

VARIABLES now, request, response, probe, memo

vars == <<now, request, response, probe, memo>>

None == [kind |-> "None"]

(***************************************************************************)
(* Bounds of the explored inputs.                                          *)
(***************************************************************************)
MaxNow == 1
MaxHist == 3
MaxPeriods == 3
MaxUsers == 200
MaxRecords == 3
MaxEmployees == 2
MaxProbeHist == 2
MaxProbeUsers == 20
MaxProbeRecords == 2

(***************************************************************************)
(* Arithmetic helpers.                                                     *)
(***************************************************************************)
Min(a, b) == IF a < b THEN a ELSE b
Max(a, b) == IF a > b THEN a ELSE b

\* floor(a / b) for b > 0 and any integer a.
FloorDiv(a, b) == IF a >= 0 THEN a \div b ELSE 0 - ((0 - a + b - 1) \div b)

\* round(num/den, 0) to the nearest integer, ties to even (den > 0).
RoundHalfEven(num, den) ==
    LET q == FloorDiv(num, den)
        r == num - q * den
    IN  IF 2 * r > den THEN q + 1
        ELSE IF 2 * r < den THEN q
        ELSE IF q % 2 = 0 THEN q ELSE q + 1

\* round(x * 100, 2) and round(x, 2) of a value x given as a rational:
\* the result in hundredths.
Round2(num, den) == RoundHalfEven(100 * num, den)

(***************************************************************************)
(* Outcomes of a call: a returned value or a raised exception.             *)
(***************************************************************************)
Return(v) == [kind |-> "return", value |-> v]
Raise(e)  == [kind |-> "raise", exc |-> e]

(***************************************************************************)
(* AdoptionPredictor.predict                                               *)
(* historical_data is the sequence of the points' adoption_rate values.    *)
(***************************************************************************)
DefaultBaseRate == 65
DefaultGrowthRate == 5

\* Mutant of Trend: the slope divided by the number of steps, count - 1.
Trend_per_step(historical_data) ==
    LET n == Len(historical_data)
    IN  IF n < 2
        THEN [baseNum |-> DefaultBaseRate, growthNum |-> DefaultGrowthRate, den |-> 1]
        ELSE [baseNum   |-> historical_data[n] * (n - 1),
              growthNum |-> historical_data[n] - historical_data[1],
              den       |-> n - 1]

\* base_rate * 100 and growth_rate * 100 as rationals over the common
\* denominator den:  base = baseNum/den, growth = growthNum/den (percent).
Trend(historical_data) ==
    LET n == Len(historical_data)
    IN  IF n < 2
        THEN [baseNum |-> DefaultBaseRate, growthNum |-> DefaultGrowthRate, den |-> 1]
        ELSE [baseNum   |-> historical_data[n] * n,
              growthNum |-> historical_data[n] - historical_data[1],
              den       |-> n]

RateFloor == 10
RateCap == 95

\* Mutant of PredictedRate: the cap applied, the floor forgotten.
PredictedRate_no_floor(t, i) ==
    Min(RateCap * t.den, t.baseNum + t.growthNum * i)

\* min(0.95, max(0.1, predicted_rate)), as a numerator over t.den (percent).
PredictedRate(t, i) ==
    Min(RateCap * t.den, Max(RateFloor * t.den, t.baseNum + t.growthNum * i))

DaysPerPeriod == 30
BandHalfWidth == 5

\* datetime.isoformat(): a string, not a number.
IsoFormat(day) == [type |-> "str", iso |-> day]

ForecastPoint(t, i) ==
    [period        |-> i,
     adoption_rate |-> Round2(PredictedRate(t, i), t.den),
     timestamp     |-> IsoFormat(now + DaysPerPeriod * i)]

ConfidenceBand(t, i) ==
    LET p == PredictedRate(t, i)
    IN  [period      |-> i,
         lower_bound |-> <<Max(0, p - BandHalfWidth * t.den), t.den>>,
         upper_bound |-> <<Min(100 * t.den, p + BandHalfWidth * t.den), t.den>>]

\* range(1, forecast_periods + 1) is empty when forecast_periods < 1.
AdoptionPredictor_predict(historical_data, forecast_periods) ==
    LET t == Trend(historical_data)
        k == Max(0, forecast_periods)
    IN  Return([predictions          |-> [i \in 1..k |-> ForecastPoint(t, i)],
                confidence_intervals |-> [i \in 1..k |-> ConfidenceBand(t, i)]])

(***************************************************************************)
(* ROIPredictor.predict                                                    *)
(* industry and company_size are strings, modelled as sequences of         *)
(* characters so that str.lower() is computed.  Multipliers are in         *)
(* hundredths (130 is 1.3).                                                *)
(***************************************************************************)
UpperLetters ==
    <<"A","B","C","D","E","F","G","H","I","J","K","L","M",
      "N","O","P","Q","R","S","T","U","V","W","X","Y","Z">>
LowerLetters ==
    <<"a","b","c","d","e","f","g","h","i","j","k","l","m",
      "n","o","p","q","r","s","t","u","v","w","x","y","z">>

LowerChar(c) ==
    IF \E i \in DOMAIN UpperLetters : UpperLetters[i] = c
    THEN LowerLetters[CHOOSE i \in DOMAIN UpperLetters : UpperLetters[i] = c]
    ELSE c

\* str.lower()
Lower(s) == [i \in DOMAIN s |-> LowerChar(s[i])]

\* dict.get(key, default)
DictGet(d, key, default) == IF key \in DOMAIN d THEN d[key] ELSE default

industry_multipliers ==
       (<<"t","e","c","h","n","o","l","o","g","y">> :> 130)
    @@ (<<"f","i","n","a","n","c","i","a","l","_","s","e","r","v","i","c","e","s">> :> 120)
    @@ (<<"h","e","a","l","t","h","c","a","r","e">> :> 110)
    @@ (<<"m","a","n","u","f","a","c","t","u","r","i","n","g">> :> 100)
    @@ (<<"r","e","t","a","i","l">> :> 95)
    @@ (<<"e","d","u","c","a","t","i","o","n">> :> 90)
    @@ (<<"d","e","f","a","u","l","t">> :> 100)

size_multipliers ==
       (<<"s","m","a","l","l">> :> 90)
    @@ (<<"m","e","d","i","u","m">> :> 100)
    @@ (<<"l","a","r","g","e">> :> 110)
    @@ (<<"e","n","t","e","r","p","r","i","s","e">> :> 120)

base_roi == 200
DefaultMultiplier == 100
cost_per_user == 360
implementation_cost_per_user == 150
productivity_gain_per_user == 1200
Year1Realization == 60
Year2Realization == 80
Year3Realization == 90
BreakevenFallback == 24
confidence_score == 85

\* Mutant of IndustryMult: the lookup without .lower().
IndustryMult_case_sensitive(industry) ==
    DictGet(industry_multipliers, industry, DefaultMultiplier)

IndustryMult(industry) ==
    DictGet(industry_multipliers, Lower(industry), DefaultMultiplier)

SizeMult(company_size) ==
    DictGet(size_multipliers, Lower(company_size), DefaultMultiplier)

\* round(base_roi * industry_mult * size_mult, 2), in hundredths.
PredictedROI(industry, company_size) ==
    Round2(base_roi * IndustryMult(industry) * SizeMult(company_size), 10000)

\* int(x) of the rational num/den: truncation towards zero.
IntTrunc(num, den) ==
    LET n == IF den < 0 THEN 0 - num ELSE num
        d == IF den < 0 THEN 0 - den ELSE den
    IN  IF n >= 0 THEN n \div d ELSE 0 - ((0 - n) \div d)

\* benefits * 100: employee_count * productivity_gain_per_user * 0.6 etc.
Benefits100(employee_count, realization) ==
    employee_count * productivity_gain_per_user * realization

Year1Costs(employee_count) ==
    employee_count * cost_per_user + employee_count * implementation_cost_per_user

\* Mutant of BreakevenMonth: the month rounded up instead of truncated.
BreakevenMonth_ceil(employee_count) ==
    LET b100 == Benefits100(employee_count, Year1Realization)
        c    == Year1Costs(employee_count)
    IN  IF b100 > 100 * c THEN (c * 1200 + b100 - 1) \div b100 ELSE BreakevenFallback

\* monthly_benefit = year1_benefits / 12, monthly_cost = year1_costs / 12;
\* int(year1_costs / monthly_benefit) if monthly_benefit > monthly_cost else 24
BreakevenMonth(employee_count) ==
    LET b100 == Benefits100(employee_count, Year1Realization)
        c    == Year1Costs(employee_count)
    IN  IF b100 > 100 * c THEN IntTrunc(c * 1200, b100) ELSE BreakevenFallback

\* One year's record; costs, benefits and roi in hundredths.
\* roi = round((benefits - costs) / costs * 100, 2)
YearProjection(costs, b100) ==
    [costs    |-> 100 * costs,
     benefits |-> b100,
     roi      |-> IF costs > 0 THEN Round2(b100 - 100 * costs, costs)
                  ELSE Round2(100 * costs - b100, 0 - costs)]

\* Mutant of ROIPredictor_predict: the projection stamped with the time of
\* the call, as the forecast points are.
ROIPredictor_predict_stamped(employee_count, industry, company_size) ==
    IF Year1Costs(employee_count) = 0
    THEN Raise("ZeroDivisionError")
    ELSE Return(
        [predicted_roi    |-> PredictedROI(industry, company_size),
         year1 |-> YearProjection(Year1Costs(employee_count),
                                  Benefits100(employee_count, Year1Realization)),
         year2 |-> YearProjection(employee_count * cost_per_user,
                                  Benefits100(employee_count, Year2Realization)),
         year3 |-> YearProjection(employee_count * cost_per_user,
                                  Benefits100(employee_count, Year3Realization)),
         breakeven_month  |-> BreakevenMonth(employee_count),
         confidence_score |-> confidence_score,
         generated_at     |-> IsoFormat(now)])

ROIPredictor_predict(employee_count, industry, company_size) ==
    LET year1_costs == Year1Costs(employee_count)
        year2_costs == employee_count * cost_per_user
        year3_costs == employee_count * cost_per_user
    IN  IF year1_costs = 0
        THEN Raise("ZeroDivisionError")
        ELSE Return(
            [predicted_roi    |-> PredictedROI(industry, company_size),
             year1 |-> YearProjection(year1_costs, Benefits100(employee_count, Year1Realization)),
             year2 |-> YearProjection(year2_costs, Benefits100(employee_count, Year2Realization)),
             year3 |-> YearProjection(year3_costs, Benefits100(employee_count, Year3Realization)),
             breakeven_month  |-> BreakevenMonth(employee_count),
             confidence_score |-> confidence_score])

(***************************************************************************)
(* IEEE-754 double arithmetic for int(len(df) * 0.15) and                  *)
(* int(len(df) * 0.35).  A positive double is significand * 2^(-scale),    *)
(* the significand a sequence of bits, least significant first.            *)
(***************************************************************************)
HexBits(h) == <<h % 2, (h \div 2) % 2, (h \div 4) % 2, (h \div 8) % 2>>

RECURSIVE BitsOfHex(_)
\* The bits, least significant first, of hexadecimal digits given most
\* significant first.
BitsOfHex(hex) ==
    IF hex = <<>> THEN <<>>
    ELSE BitsOfHex(Tail(hex)) \o HexBits(Head(hex))

SignificandBits == 53

\* 0.15 == 0x13333333333333 * 2^-55  (float.hex: 0x1.3333333333333p-3)
Double015 ==
    [bits  |-> SubSeq(BitsOfHex(<<1,3,3,3,3,3,3,3,3,3,3,3,3,3>>), 1, SignificandBits),
     scale |-> 55]

\* 0.35 == 0x16666666666666 * 2^-54  (float.hex: 0x1.6666666666666p-2)
Double035 ==
    [bits  |-> SubSeq(BitsOfHex(<<1,6,6,6,6,6,6,6,6,6,6,6,6,6>>), 1, SignificandBits),
     scale |-> 54]

RECURSIVE MulBits(_, _, _, _)
\* The exact product n * bits, from bit i on, with the carry so far.
MulBits(bits, n, i, carry) ==
    IF i > Len(bits)
    THEN IF carry = 0 THEN <<>>
         ELSE <<carry % 2>> \o MulBits(bits, n, i + 1, carry \div 2)
    ELSE LET t == n * bits[i] + carry
         IN  <<t % 2>> \o MulBits(bits, n, i + 1, t \div 2)

RECURSIVE IncBits(_)
IncBits(bits) ==
    IF bits = <<>> THEN <<1>>
    ELSE IF Head(bits) = 0 THEN <<1>> \o Tail(bits)
    ELSE <<0>> \o IncBits(Tail(bits))

RECURSIVE BitsToInt(_)
BitsToInt(bits) ==
    IF bits = <<>> THEN 0 ELSE Head(bits) + 2 * BitsToInt(Tail(bits))

\* The exact value bits (an integer with its top bit set) rounded to 53
\* significant bits, ties to even: [bits, shift], the value bits * 2^shift.
RoundToDouble(bits) ==
    LET d == Len(bits) - SignificandBits
    IN  IF d <= 0 THEN [bits |-> bits, shift |-> 0]
        ELSE LET kept   == SubSeq(bits, d + 1, Len(bits))
                 guard  == bits[d]
                 sticky == \E j \in 1..(d - 1) : bits[j] = 1
                 up     == guard = 1 /\ (sticky \/ kept[1] = 1)
             IN  [bits |-> IF up THEN IncBits(kept) ELSE kept, shift |-> d]

\* int(n * x) for an int n >= 0 and a positive double x: the double nearest
\* to the exact product, truncated.
IntOfProduct(n, x) ==
    IF n = 0 THEN 0
    ELSE LET r    == RoundToDouble(MulBits(x.bits, n, 1, 0))
             drop == x.scale - r.shift
         IN  IF drop >= Len(r.bits) THEN 0
             ELSE BitsToInt(SubSeq(r.bits, drop + 1, Len(r.bits)))

(***************************************************************************)
(* UserSegmenter.segment                                                   *)
(* user_data is given by its length: the code reads only len(df).          *)
(***************************************************************************)
Segment(segment_id, size, engagement_score) ==
    [segment_id |-> segment_id, size |-> size,
     engagement_score |-> engagement_score]

UserSegmenter_segment(user_data, n_segments) ==
    Return([segments |->
                << Segment("champions", IntOfProduct(user_data, Double015), 85),
                   Segment("engaged",   IntOfProduct(user_data, Double035), 65),
                   Segment("casual",    IntOfProduct(user_data, Double035), 45),
                   Segment("at_risk",   IntOfProduct(user_data, Double015), 25) >>,
            recommendations |-> {"champions", "engaged", "casual", "at_risk"}])

(***************************************************************************)
(* ChurnPredictor.predict                                                  *)
(* engagement_history is a sequence of records [date, interactions];       *)
(* dates are day numbers.  Scores are in hundredths.                       *)
(***************************************************************************)
RECURSIVE SumOf(_)
SumOf(xs) == IF xs = <<>> THEN 0 ELSE Head(xs) + SumOf(Tail(xs))

Interactions(engagement_history) ==
    [i \in DOMAIN engagement_history |-> engagement_history[i].interactions]

InactiveDays == 14
LowInteractions == 2
HighStd == 5
InactiveWeight == 30
LowEngagementWeight == 30
DecliningWeight == 20
VariabilityWeight == 10
ChurnCap == 95
HighRisk == 70
MediumRisk == 40

\* (datetime.now() - pd.to_datetime(df['date'].iloc[-1])).days
DaysSinceLastActivity(engagement_history) ==
    now - engagement_history[Len(engagement_history)].date

\* df['interactions'].mean() < 2
LowAverage(xs) == SumOf(xs) < LowInteractions * Len(xs)

\* df['interactions'].iloc[-1] - df['interactions'].iloc[0]
EngagementTrend(xs) == xs[Len(xs)] - xs[1]

\* df['interactions'].std() > 5: the sample standard deviation (ddof = 1),
\* NaN for a single record, and NaN > 5 is False.
\*   std > 5  <=>  (n*sum(x^2) - sum(x)^2) / (n*(n-1)) > 25
HighVariability(xs) ==
    LET n  == Len(xs)
        s  == SumOf(xs)
        sq == SumOf([i \in DOMAIN xs |-> xs[i] * xs[i]])
    IN  /\ n >= 2
        /\ n * sq - s * s > HighStd * HighStd * n * (n - 1)

ChurnScore(engagement_history) ==
    LET xs == Interactions(engagement_history)
    IN    (IF DaysSinceLastActivity(engagement_history) > InactiveDays
           THEN InactiveWeight ELSE 0)
        + (IF LowAverage(xs) THEN LowEngagementWeight ELSE 0)
        + (IF EngagementTrend(xs) < 0 THEN DecliningWeight ELSE 0)
        + (IF HighVariability(xs) THEN VariabilityWeight ELSE 0)

\* Mutant of RiskLevel: inclusive thresholds.
RiskLevel_inclusive(churn_probability) ==
    IF churn_probability >= HighRisk THEN "high"
    ELSE IF churn_probability >= MediumRisk THEN "medium"
    ELSE "low"

RiskLevel(churn_probability) ==
    IF churn_probability > HighRisk THEN "high"
    ELSE IF churn_probability > MediumRisk THEN "medium"
    ELSE "low"

\* Mutant of RiskFactors: the variability rule labelled like the others.
RiskFactors_with_variability(engagement_history) ==
    LET xs == Interactions(engagement_history)
    IN     (IF DaysSinceLastActivity(engagement_history) > InactiveDays
            THEN <<"Inactive for over 2 weeks">> ELSE <<>>)
        \o (IF LowAverage(xs) THEN <<"Low engagement level">> ELSE <<>>)
        \o (IF EngagementTrend(xs) < 0 THEN <<"Declining usage trend">> ELSE <<>>)
        \o (IF HighVariability(xs) THEN <<"Highly variable usage">> ELSE <<>>)

RiskFactors(engagement_history) ==
    LET xs == Interactions(engagement_history)
    IN     (IF DaysSinceLastActivity(engagement_history) > InactiveDays
            THEN <<"Inactive for over 2 weeks">> ELSE <<>>)
        \o (IF LowAverage(xs) THEN <<"Low engagement level">> ELSE <<>>)
        \o (IF EngagementTrend(xs) < 0 THEN <<"Declining usage trend">> ELSE <<>>)

\* Mutant of ChurnPredictor_predict: a standard deviation that raises on
\* fewer than two records, as statistics.stdev does.
ChurnPredictor_predict_strict_std(engagement_history) ==
    IF Len(engagement_history) = 0
    THEN Raise("KeyError")
    ELSE IF Len(engagement_history) < 2
    THEN Raise("StatisticsError")
    ELSE LET churn_probability == Min(ChurnCap, ChurnScore(engagement_history))
         IN  Return([churn_probability |-> churn_probability,
                     risk_level        |-> RiskLevel(churn_probability),
                     key_risk_factors  |-> RiskFactors(engagement_history)])

\* df['date'] on the frame of an empty list raises KeyError: it has no
\* columns.
ChurnPredictor_predict(engagement_history) ==
    IF Len(engagement_history) = 0
    THEN Raise("KeyError")
    ELSE LET churn_probability == Min(ChurnCap, ChurnScore(engagement_history))
         IN  Return([churn_probability |-> churn_probability,
                     risk_level        |-> RiskLevel(churn_probability),
                     key_risk_factors  |-> RiskFactors(engagement_history)])

(***************************************************************************)
(* API endpoints: the engine call, the typed response, and the except      *)
(* clause that turns any exception into HTTP 500.                          *)
(***************************************************************************)
HTTP200(body)   == [status |-> 200, body |-> body]
HTTP500(detail) == [status |-> 500, detail |-> detail]

\* The Python types of the values of one predictions entry (lines 123-127).
ForecastPointTypes ==
    [period |-> "int", adoption_rate |-> "float", timestamp |-> "str"]

\* predictions: List[Dict[str, float]]: every value must validate as float;
\* an ISO timestamp string does not.
ValidatesAsFloatDicts(entries, types) ==
    \A i \in DOMAIN entries :
        \A f \in DOMAIN entries[i] : types[f] \in {"int", "float"}

AdoptionPredictionResponse(result) ==
    IF ValidatesAsFloatDicts(result.predictions, ForecastPointTypes)
    THEN HTTP200([predictions          |-> result.predictions,
                  confidence_intervals |-> result.confidence_intervals,
                  key_drivers          |-> 4,
                  recommendations      |-> 4])
    ELSE HTTP500("pydantic.ValidationError")

ROIPredictionResponse(result) ==
    HTTP200([predicted_roi    |-> result.predicted_roi,
             year1_projection |-> result.year1,
             year2_projection |-> result.year2,
             year3_projection |-> result.year3,
             breakeven_month  |-> result.breakeven_month,
             confidence_score |-> result.confidence_score])

UserSegmentationResponse(result) ==
    HTTP200([segments                |-> result.segments,
             segment_characteristics |-> result.segments,
             recommendations         |-> result.recommendations])

\* interventions: the static catalogue keyed by risk level, by its length.
interventions == [high |-> 4, medium |-> 4, low |-> 3]

ChurnPredictionResponse(result) ==
    HTTP200([churn_probability         |-> result.churn_probability,
             risk_level                |-> result.risk_level,
             key_risk_factors          |-> result.key_risk_factors,
             recommended_interventions |-> interventions[result.risk_level]])

\* except Exception as e: raise HTTPException(status_code=500, detail=str(e))
ExceptionResponse(result) == HTTP500(result.exc)

(***************************************************************************)
(* Requests.                                                               *)
(***************************************************************************)
SeqsUpTo(S, n) == UNION {[1..k -> S] : k \in 0..n}

Rates == {0, 50, 70, 100, 1000}
ForecastPeriods == (0 - 1)..MaxPeriods

AdoptionRequests ==
    {[endpoint |-> "predict_adoption", historical_data |-> h, forecast_periods |-> k] :
        h \in SeqsUpTo(Rates, MaxHist), k \in ForecastPeriods}

Industries ==
    { <<"t","e","c","h","n","o","l","o","g","y">>,
      <<"T","e","c","h","n","o","l","o","g","y">>,
      <<"R","E","T","A","I","L">>,
      <<"h","e","a","l","t","h","c","a","r","e">>,
      <<"d","e","f","a","u","l","t">>,
      <<"x","y","z">> }

CompanySizes ==
    { <<"l","a","r","g","e">>,
      <<"L","a","r","g","e">>,
      <<"S","M","A","L","L">>,
      <<"e","n","t","e","r","p","r","i","s","e">>,
      <<"x","y","z">> }

EmployeeCounts == ((0 - 1)..MaxEmployees) \cup {100}

ROIRequests ==
    {[endpoint |-> "predict_roi", employee_count |-> e, industry |-> i, company_size |-> c] :
        e \in EmployeeCounts, i \in Industries, c \in CompanySizes}

SegmentCounts == {2, 4, 7}

SegmentRequests ==
    {[endpoint |-> "segment_users", user_data |-> n, n_segments |-> k] :
        n \in 0..MaxUsers, k \in SegmentCounts}

InteractionCounts == {0, 1, 3, 12}
LastDates == {0 - 31, 0 - 14, 0}
FirstDate == 0 - 31

\* One interaction burst in a longer quiet history, at its end or its start.
LongHistories == { <<0, 0, 0, 0, 0, 0, 0, 15>>, <<15, 0, 0, 0, 0, 0, 0, 0>> }

\* The history with these interaction counts whose last record is dated d.
History(xs, d) ==
    [i \in DOMAIN xs |->
        [date |-> IF i = Len(xs) THEN d ELSE FirstDate, interactions |-> xs[i]]]

ChurnRequests ==
    {[endpoint |-> "predict_churn", engagement_history |-> History(xs, d)] :
        xs \in SeqsUpTo(InteractionCounts, MaxRecords) \cup LongHistories,
        d \in LastDates}

Requests == AdoptionRequests \cup ROIRequests \cup SegmentRequests \cup ChurnRequests

(***************************************************************************)
(* The service: a request arrives, its endpoint handles it, the response   *)
(* is sent.  response keeps the engine's outcome (result) next to the      *)
(* HTTP outcome, and the time of the call.                                 *)
(***************************************************************************)
Responded(req, result, http) ==
    [kind |-> "response", request |-> req, at |-> now, result |-> result, http |-> http]

Init ==
    /\ now = 0
    /\ request = None
    /\ response = None
    /\ probe = None
    /\ memo = None

Tick ==
    /\ now < MaxNow
    /\ now' = now + 1
    /\ UNCHANGED <<request, response, probe, memo>>

Receive ==
    /\ request = None
    /\ response = None
    /\ request' \in Requests
    /\ UNCHANGED <<now, response, probe, memo>>

predict_adoption ==
    /\ request # None
    /\ request.endpoint = "predict_adoption"
    /\ LET result == AdoptionPredictor_predict(request.historical_data,
                                               request.forecast_periods)
       IN  response' = Responded(request, result,
                                 IF result.kind = "raise"
                                 THEN ExceptionResponse(result)
                                 ELSE AdoptionPredictionResponse(result.value))
    /\ request' = None
    /\ UNCHANGED <<now, probe, memo>>

predict_roi ==
    /\ request # None
    /\ request.endpoint = "predict_roi"
    /\ LET result == ROIPredictor_predict(request.employee_count, request.industry,
                                          request.company_size)
       IN  response' = Responded(request, result,
                                 IF result.kind = "raise"
                                 THEN ExceptionResponse(result)
                                 ELSE ROIPredictionResponse(result.value))
    /\ request' = None
    /\ UNCHANGED <<now, probe, memo>>

segment_users ==
    /\ request # None
    /\ request.endpoint = "segment_users"
    /\ LET result == UserSegmenter_segment(request.user_data, request.n_segments)
       IN  response' = Responded(request, result,
                                 IF result.kind = "raise"
                                 THEN ExceptionResponse(result)
                                 ELSE UserSegmentationResponse(result.value))
    /\ request' = None
    /\ UNCHANGED <<now, probe, memo>>

predict_churn ==
    /\ request # None
    /\ request.endpoint = "predict_churn"
    /\ LET result == ChurnPredictor_predict(request.engagement_history)
       IN  response' = Responded(request, result,
                                 IF result.kind = "raise"
                                 THEN ExceptionResponse(result)
                                 ELSE ChurnPredictionResponse(result.value))
    /\ request' = None
    /\ UNCHANGED <<now, probe, memo>>

Deliver ==
    /\ response # None
    /\ response' = None
    /\ UNCHANGED <<now, request, probe, memo>>

Next ==
    \/ Tick
    \/ Receive
    \/ predict_adoption
    \/ predict_roi
    \/ segment_users
    \/ predict_churn
    \/ Deliver

Spec == Init /\ [][Next]_vars

(***************************************************************************)
(* A client that repeats one request (probe) and keeps the first response  *)
(* it got to it (memo), while other requests are served and time passes.   *)
(***************************************************************************)
BackgroundRequests ==
    { [endpoint |-> "predict_adoption", historical_data |-> <<50, 70>>,
       forecast_periods |-> 1],
      [endpoint |-> "predict_roi", employee_count |-> 1,
       industry |-> <<"x","y","z">>, company_size |-> <<"x","y","z">>],
      [endpoint |-> "segment_users", user_data |-> 20, n_segments |-> 4],
      [endpoint |-> "predict_churn", engagement_history |-> History(<<1>>, 0)] }

\* The requests the client may repeat: those of Requests within the
\* tighter bounds MaxProbeHist, MaxProbeUsers and MaxProbeRecords.
ProbeRequests ==
    {r \in Requests :
        CASE r.endpoint = "predict_adoption" -> Len(r.historical_data) <= MaxProbeHist
          [] r.endpoint = "segment_users"    -> r.user_data <= MaxProbeUsers
          [] r.endpoint = "predict_churn"    ->
                \/ Len(r.engagement_history) <= MaxProbeRecords
                \/ Interactions(r.engagement_history) \in LongHistories
          [] OTHER -> TRUE}

InitTwice ==
    /\ now = 0
    /\ request = None
    /\ response = None
    /\ probe \in ProbeRequests
    /\ memo = None

ReceiveProbe ==
    /\ request = None
    /\ response = None
    /\ request' = probe
    /\ UNCHANGED <<now, response, probe, memo>>

ReceiveOther ==
    /\ request = None
    /\ response = None
    /\ request' \in BackgroundRequests
    /\ UNCHANGED <<now, response, probe, memo>>

Remember ==
    /\ response # None
    /\ response.request = probe
    /\ memo = None
    /\ memo' = response
    /\ response' = None
    /\ UNCHANGED <<now, request, probe>>

NextTwice ==
    \/ Tick
    \/ ReceiveProbe
    \/ ReceiveOther
    \/ predict_adoption
    \/ predict_roi
    \/ segment_users
    \/ predict_churn
    \/ Deliver
    \/ Remember

SpecTwice == InitTwice /\ [][NextTwice]_vars

(***************************************************************************)
(* Properties.                                                             *)
(***************************************************************************)
HandledBy(endpoint) ==
    /\ response # None
    /\ response.request.endpoint = endpoint

Returned == response.result.kind = "return"

RaisedError(exc) ==
    /\ response.result.kind = "raise"
    /\ response.result.exc = exc

\* C1: for every historical series (empty and single-point included) and
\* every forecast_periods >= 1, AdoptionPredictor.predict returns exactly
\* forecast_periods forecast points and as many confidence bands, the i-th
\* of each with period = i, and every adoption_rate within [10, 95].
C1_ForecastShape ==
    (HandledBy("predict_adoption") /\ response.request.forecast_periods >= 1) =>
        /\ Returned
        /\ LET k  == response.request.forecast_periods
               ps == response.result.value.predictions
               cs == response.result.value.confidence_intervals
           IN  /\ DOMAIN ps = 1..k
               /\ DOMAIN cs = 1..k
               /\ \A i \in 1..k :
                    /\ ps[i].period = i
                    /\ cs[i].period = i
                    /\ ps[i].adoption_rate >= 1000
                    /\ ps[i].adoption_rate <= 9500

\* C1 witness: a forecast of several periods from a series falling from
\* 1000 to 0 (growth of -500 points per period), saturated at 10.
C1_Witness ==
    /\ HandledBy("predict_adoption")
    /\ response.request.historical_data = <<1000, 0>>
    /\ response.request.forecast_periods = 3
    /\ Returned
    /\ Len(response.result.value.predictions) = 3
    /\ response.result.value.predictions[3].adoption_rate = 1000

\* The rate of period i as the claim gives it, as a rational in percent:
\* clamp(base_rate + growth_rate * i, 0.10, 0.95) * 100 == num / den.
C2_ExpectedRate(h, i) ==
    LET n == Len(h)
    IN  IF n < 2
        THEN [num |-> Min(95, Max(10, 65 + 5 * i)), den |-> 1]
        ELSE [num |-> Min(95 * n, Max(10 * n, h[n] * n + (h[n] - h[1]) * i)),
              den |-> n]

\* r (in hundredths) is x rounded to two decimals: |r/100 - x| <= 0.005.
C2_IsRounding(r, x) ==
    LET diff == r * x.den - 100 * x.num
    IN  2 * diff <= x.den /\ 2 * diff >= 0 - x.den

\* C2: the adoption_rate of period i is clamp(base_rate + growth_rate*i,
\* 0.10, 0.95) with base 0.65 and growth 0.05 for fewer than 2 points, and
\* base last/100 and growth (last - first)/count/100 otherwise; the series
\* [50, 70] with 2 periods yields 80.0 and 90.0.
C2_RateFormula ==
    HandledBy("predict_adoption") =>
        /\ Returned
        /\ LET h  == response.request.historical_data
               ps == response.result.value.predictions
           IN  /\ \A i \in DOMAIN ps :
                    C2_IsRounding(ps[i].adoption_rate, C2_ExpectedRate(h, i))
               /\ (h = <<50, 70>> /\ response.request.forecast_periods = 2) =>
                    /\ ps[1].adoption_rate = 8000
                    /\ ps[2].adoption_rate = 9000

\* C2 witness: the series [50, 70] forecast over 2 periods.
C2_Witness ==
    /\ HandledBy("predict_adoption")
    /\ response.request.historical_data = <<50, 70>>
    /\ response.request.forecast_periods = 2
    /\ Returned
    /\ response.result.value.predictions[1].adoption_rate = 8000
    /\ response.result.value.predictions[2].adoption_rate = 9000

\* The multiplier of a case-insensitive lookup in a table, 1.0 when absent.
C3_ExpectedMult(table, s) ==
    IF \E key \in DOMAIN table : Lower(key) = Lower(s)
    THEN table[CHOOSE key \in DOMAIN table : Lower(key) = Lower(s)]
    ELSE 100

C3_Unknown == <<"x","y","z">>

\* C3: for employee_count > 0, predicted_roi = 200 * industry multiplier *
\* size multiplier, each found case-insensitively and 1.0 when unknown;
\* unknown/unknown gives 200.0 and technology/large gives 286.0.
C3_PredictedROI ==
    (HandledBy("predict_roi") /\ response.request.employee_count > 0) =>
        /\ Returned
        /\ LET q  == response.request
               im == C3_ExpectedMult(industry_multipliers, q.industry)
               sm == C3_ExpectedMult(size_multipliers, q.company_size)
               v  == response.result.value.predicted_roi
           IN  /\ v * 100 = 200 * im * sm
               /\ (q.industry = C3_Unknown /\ q.company_size = C3_Unknown) =>
                    v = 20000
               /\ (/\ q.industry = <<"t","e","c","h","n","o","l","o","g","y">>
                   /\ q.company_size = <<"l","a","r","g","e">>) => v = 28600

\* C3 witness: Technology / Large (capitalised) for 100 employees.
C3_Witness ==
    /\ HandledBy("predict_roi")
    /\ response.request.employee_count = 100
    /\ response.request.industry = <<"T","e","c","h","n","o","l","o","g","y">>
    /\ response.request.company_size = <<"L","a","r","g","e">>
    /\ Returned
    /\ response.result.value.predicted_roi = 28600

\* C4: for every non-empty population of size N, UserSegmenter.segment
\* returns the 4 segments champions, engaged, casual, at_risk with sizes
\* floor(0.15*N), floor(0.35*N), floor(0.35*N), floor(0.15*N), non-negative
\* and summing to at most N.
C4_SegmentSizes ==
    (HandledBy("segment_users") /\ response.request.user_data >= 1) =>
        /\ Returned
        /\ LET n  == response.request.user_data
               sg == response.result.value.segments
           IN  /\ [i \in DOMAIN sg |-> sg[i].segment_id]
                     = <<"champions", "engaged", "casual", "at_risk">>
               /\ [i \in DOMAIN sg |-> sg[i].size]
                     = <<(15 * n) \div 100, (35 * n) \div 100,
                         (35 * n) \div 100, (15 * n) \div 100>>
               /\ sg[1].size + sg[2].size + sg[3].size + sg[4].size <= n

\* The sum of the weights of the rules a history triggers when the call is
\* made on day at, as the claim gives them.
C5_ExpectedScore(h, at) ==
    LET n   == Len(h)
        xs  == [i \in 1..n |-> h[i].interactions]
        s   == SumOf(xs)
        dev == SumOf([i \in 1..n |-> (n * xs[i] - s) * (n * xs[i] - s)])
    IN    (IF at - h[n].date > 14 THEN 30 ELSE 0)
        + (IF s < 2 * n THEN 30 ELSE 0)
        + (IF h[n].interactions - h[1].interactions < 0 THEN 20 ELSE 0)
        + (IF n > 1 /\ dev > 25 * n * n * (n - 1) THEN 10 ELSE 0)

\* C5: for a history of at least one record, churn_probability is
\* min(0.95, sum of the weights of the triggered rules) and risk_level is
\* high above 0.7, medium above 0.4, low otherwise (0.7 itself is medium,
\* 0.4 itself is low); one record with 1 interaction dated 31 days ago
\* gives 0.6 and medium.
C5_ChurnScore ==
    (HandledBy("predict_churn") /\ Len(response.request.engagement_history) >= 1) =>
        /\ Returned
        /\ LET h == response.request.engagement_history
               v == response.result.value
           IN  /\ v.churn_probability = Min(95, C5_ExpectedScore(h, response.at))
               /\ v.risk_level = "high"   <=> v.churn_probability > 70
               /\ v.risk_level = "medium" <=> (/\ v.churn_probability > 40
                                               /\ v.churn_probability <= 70)
               /\ v.risk_level = "low"    <=> v.churn_probability <= 40
               /\ (/\ Len(h) = 1
                   /\ h[1].interactions = 1
                   /\ response.at - h[1].date = 31) =>
                     (v.churn_probability = 60 /\ v.risk_level = "medium")

\* C5 witness: inactivity, low mean and high variability without decline
\* score exactly 0.7, which is medium.
C5_Witness ==
    /\ HandledBy("predict_churn")
    /\ Interactions(response.request.engagement_history) = <<0, 0, 0, 0, 0, 0, 0, 15>>
    /\ Returned
    /\ response.result.value.churn_probability = 70
    /\ response.result.value.risk_level = "medium"
    /\ response.result.value.key_risk_factors
          = <<"Inactive for over 2 weeks", "Low engagement level">>

\* C7: AdoptionPredictor.predict fails with a ValidationError whenever
\* forecast_periods < 1 and never returns a result for such a request.
C7_RejectsNonPositivePeriods ==
    (HandledBy("predict_adoption") /\ response.request.forecast_periods < 1) =>
        RaisedError("ValidationError")

\* C8: ROIPredictor.predict fails with a ValidationError whenever
\* employee_count <= 0, never returns a projection for such a request and
\* never fails with another kind of error.
C8_RejectsNonPositiveEmployees ==
    (HandledBy("predict_roi") /\ response.request.employee_count <= 0) =>
        RaisedError("ValidationError")

\* C9: UserSegmenter.segment fails with a ValidationError when user_data is
\* empty and never returns four segments of size 0.
C9_RejectsEmptyPopulation ==
    (HandledBy("segment_users") /\ response.request.user_data = 0) =>
        RaisedError("ValidationError")

SameRequestAgain ==
    /\ response # None
    /\ memo # None
    /\ response.request = memo.request

\* A forecast without its timestamps.
C6_Undated(predictions) ==
    [i \in DOMAIN predictions |->
        [period        |-> predictions[i].period,
         adoption_rate |-> predictions[i].adoption_rate]]

C11_ValidInput(q) ==
    CASE q.endpoint = "predict_adoption" -> q.forecast_periods >= 1
      [] q.endpoint = "predict_roi"      -> q.employee_count > 0
      [] q.endpoint = "segment_users"    -> q.user_data >= 1
      [] q.endpoint = "predict_churn"    -> Len(q.engagement_history) >= 1

\* C11: every request to one of the four endpoints ends either with the
\* complete typed response or with HTTP 500 carrying the exception's
\* message, never both and never a partial response; a request whose
\* engine call returns a result for valid input (predict_adoption with
\* forecast_periods >= 1, for one) ends with the complete response.
C11_OneOutcome ==
    response # None =>
        /\ response.http.status \in {200, 500}
        /\ response.http.status = 200 =>
             (Returned /\ DOMAIN response.http = {"status", "body"})
        /\ response.http.status = 500 => DOMAIN response.http = {"status", "detail"}
        /\ response.result.kind = "raise" =>
             (response.http.status = 500 /\ response.http.detail = response.result.exc)
        /\ (Returned /\ C11_ValidInput(response.request)) => response.http.status = 200

\* C12: for employee_count > 0 the year-1 costs are employee_count*(360+150),
\* the year-1 benefits employee_count*1200*0.6, and breakeven_month is
\* floor(year1_costs / (year1_benefits/12)) when the monthly benefit exceeds
\* the monthly cost, 24 otherwise, whatever the industry and company_size.
C12_Breakeven ==
    (HandledBy("predict_roi") /\ response.request.employee_count > 0) =>
        /\ Returned
        /\ LET e == response.request.employee_count
               v == response.result.value
               m == v.breakeven_month
           IN  /\ v.year1.costs = 100 * e * (360 + 150)
               /\ 10 * v.year1.benefits = 100 * e * 1200 * 6
               \* compared in twelfths of a hundredth
               /\ IF v.year1.benefits > v.year1.costs
                  THEN /\ m * v.year1.benefits <= 12 * v.year1.costs
                       /\ (m + 1) * v.year1.benefits > 12 * v.year1.costs
                  ELSE m = 24

\* C12 witness: 100 employees of an unknown industry break even in month 8
\* (51000 / 6000 = 8.5).
C12_Witness ==
    /\ HandledBy("predict_roi")
    /\ response.request.employee_count = 100
    /\ response.request.industry = <<"x","y","z">>
    /\ Returned
    /\ response.result.value.year1.costs = 5100000
    /\ response.result.value.year1.benefits = 7200000
    /\ response.result.value.breakeven_month = 8

\* The labels of the first three rules a history triggers on day at.
C13_ExpectedFactors(h, at) ==
    LET n == Len(h)
        s == SumOf([i \in 1..n |-> h[i].interactions])
    IN     (IF at - h[n].date > 14 THEN <<"Inactive for over 2 weeks">> ELSE <<>>)
        \o (IF s < 2 * n THEN <<"Low engagement level">> ELSE <<>>)
        \o (IF h[n].interactions < h[1].interactions
            THEN <<"Declining usage trend">> ELSE <<>>)

\* C13: for a history of at least one record, key_risk_factors holds, in
\* this order, 'Inactive for over 2 weeks', 'Low engagement level' and
\* 'Declining usage trend', each exactly when its rule triggered; the
\* variability rule adds to the score but never a factor, so the score can
\* be 0.1 with no factor.
C13_RiskFactors ==
    (HandledBy("predict_churn") /\ Len(response.request.engagement_history) >= 1) =>
        /\ Returned
        /\ LET h == response.request.engagement_history
               v == response.result.value
           IN  /\ v.key_risk_factors = C13_ExpectedFactors(h, response.at)
               /\ v.churn_probability
                    = Min(95, C5_ExpectedScore(h, response.at))

\* C13 witness: an active user whose usage rose from 0 to 12 scores 0.1 for
\* variability alone and gets no factor.
C13_Witness ==
    /\ HandledBy("predict_churn")
    /\ Interactions(response.request.engagement_history) = <<0, 12>>
    /\ Returned
    /\ response.result.value.churn_probability = 10
    /\ response.result.value.key_risk_factors = <<>>

====
